---- MODULE Spec2Model ----
(***************************************************************************)
(* MAME Bridge NetToWin (src/MAMEBridgeNetToWin.cpp, version 3.6.0).       *)
(*                                                                         *)
(* Two threads share the globals of the program without synchronisation:   *)
(*   - the network thread (NetworkThread, ProcessLine, GetIDForName),      *)
(*   - the window-message thread (the message loop of WinMain, which       *)
(*     dispatches to BridgeWndProc and GUIWndProc).                        *)
(* Each action below is one step of one of the two threads.  A thread's    *)
(* code is cut where the other thread can observe or disturb it: between   *)
(* the iterations of the fan-out loop over g_clients, between              *)
(* g_idToName.count(id) and g_idToName[id], around the copy of             *)
(* g_currentRomName, and between the STOP broadcast, the reset of the      *)
(* title and the clearing of the maps.  A read of an object that the other *)
(* thread writes meanwhile is a data race; its result is a                 *)
(* nondeterministic choice.                                                *)
(*                                                                         *)
(* Text is modelled as sequences of one-character strings.  Output IDs     *)
(* requested by consumers are below 2^32.                                  *)
(***************************************************************************)
EXTENDS Integers, Sequences, FiniteSets, TLC

(***************************************************************************)
(* Bounds of the model.                                                    *)
(***************************************************************************)
MaxConn == 2
MaxRecv == 2
MaxClients == 2
MaxValLen == 3
MaxChunk == 2

(***************************************************************************)
(* Characters and text.                                                    *)
(***************************************************************************)
CR == "CR"
Letters == {"a", "b", "e", "m", "o", "p", "s", "t", "r", "x", "y"}
Digits == {"0", "1", "2", "3", "4", "5", "6", "7", "8", "9"}

\* std::isalnum(c) || c == '_' || c == '.'
IsCleanChar(c) == c \in Letters \cup Digits \cup {"_", "."}

CleanString(input) == SelectSeq(input, IsCleanChar)

\* The default title, "___empty".
Sentinel == <<"_", "_", "_", "e", "m", "p", "t", "y">>
\* "mame_start"
StartKeyword == <<"m", "a", "m", "e", "_", "s", "t", "a", "r", "t">>
\* "mame_stop"
StopKeyword == <<"m", "a", "m", "e", "_", "s", "t", "o", "p">>

\* What a racing read of a std::string can return besides its old and its
\* new value: bytes of both, or freed memory.  No CleanString result equals it.
Torn == <<"?">>

RECURSIVE FindFrom(_, _, _)
FindFrom(s, ch, i) ==
    IF i > Len(s) THEN 0
    ELSE IF s[i] = ch THEN i
    ELSE FindFrom(s, ch, i + 1)

\* std::string::find: the first position of ch (1-based), 0 for npos.
Find(s, ch) == FindFrom(s, ch, 1)

DigitVal(c) ==
    CASE c = "0" -> 0 [] c = "1" -> 1 [] c = "2" -> 2 [] c = "3" -> 3
      [] c = "4" -> 4 [] c = "5" -> 5 [] c = "6" -> 6 [] c = "7" -> 7
      [] c = "8" -> 8 [] c = "9" -> 9

RECURSIVE AtoiFrom(_, _, _)
AtoiFrom(s, i, acc) ==
    IF i > Len(s) \/ s[i] \notin Digits THEN acc
    ELSE AtoiFrom(s, i + 1, acc * 10 + DigitVal(s[i]))

\* std::atoi on a cleaned string (no blanks and no sign survive CleanString):
\* the value of the longest prefix of digits, 0 when there is none.
Atoi(s) == AtoiFrom(s, 1, 0)

(***************************************************************************)
(* ProcessLine, as far as it is a function of the line.                    *)
(***************************************************************************)
\* line.pop_back() when the line ends in '\r'
TrimLine(line) ==
    IF Len(line) > 0 /\ line[Len(line)] = CR
    THEN SubSeq(line, 1, Len(line) - 1)
    ELSE line

LineName(line) ==
    LET l == TrimLine(line) IN CleanString(SubSeq(l, 1, Find(l, "=") - 1))

\* The right-hand side as received, not cleaned (what LineValStr is compared
\* with).
LineValRaw(line) ==
    LET l == TrimLine(line) IN SubSeq(l, Find(l, "=") + 1, Len(l))

LineValStr(line) ==
    LET l == TrimLine(line) IN CleanString(SubSeq(l, Find(l, "=") + 1, Len(l)))

\* A ProcessLine that takes a line without '=' for an output with an empty
\* value (what LineKind is compared with).
LineKindNoEqIsUpdate(line) ==
    LET l == TrimLine(line) IN
    IF Len(l) = 0 THEN "noop"
    ELSE IF Find(l, "=") = 0 THEN "update"
    ELSE IF LineName(line) = StartKeyword THEN "start"
    ELSE IF LineName(line) = StopKeyword THEN "stop"
    ELSE "update"

LineKind(line) ==
    LET l == TrimLine(line) IN
    IF Len(l) = 0 THEN "noop"
    ELSE IF Find(l, "=") = 0 THEN "noop"
    ELSE IF LineName(line) = StartKeyword THEN "start"
    ELSE IF LineName(line) = StopKeyword THEN "stop"
    ELSE "update"

(***************************************************************************)
(* The environment: consumers and what the producer writes to the socket.  *)
(***************************************************************************)
Consumers == {"c1", "c2"}
InvalidHwnd == "invalid"
Handles == Consumers \cup {InvalidHwnd}
NoConsumer == "none"

\* The consumer that asks for names.  Window handles are opaque to the
\* bridge, so which of the consumers asks makes no difference to it.
Requesters == {"c1"}

\* IDs a consumer may ask about.
ReqIds == {0, 1}

\* The byte blocks one recv can return.
Chunks ==
    { <<"a", "=", "1", CR>>,
      <<"b", "=", "2", CR>>,
      StartKeyword \o <<"=", "p", CR>>,
      StopKeyword \o <<"=", "1", CR>>,
      <<CR>>,
      <<"x", CR>> }

(***************************************************************************)
(* Maps (std::map) as functions.                                           *)
(***************************************************************************)
EmptyMap == [x \in {} |-> x]

Put(f, k, v) == [x \in DOMAIN f \cup {k} |-> IF x = k THEN v ELSE f[x]]

Range(s) == {s[i] : i \in DOMAIN s}

VARIABLES
    \* program state
    g_running,          \* std::atomic<bool> g_running
    g_clients,          \* std::vector<HWND> g_clients
    g_nameToID,         \* std::map<std::string, LPARAM>
    g_idToName,         \* std::map<LPARAM, std::string>
    g_nextID,           \* LPARAM g_nextID
    g_currentRomName,   \* std::string g_currentRomName
    alive,              \* the process has not exited
    \* network thread
    netPc,              \* position in NetworkThread
    netBuffer,          \* std::string netBuffer (local to one connection)
    fanMsg,             \* <<id, val>> of the UPDATE being fanned out
    fanIdx,             \* the range-for's iterator, as an index
    fanEnd,             \* the range-for's end iterator, taken at loop start
    fanBuf,             \* the memory the two iterators point into
    fanLive,            \* that memory is still the vector's buffer
    \* window-message thread
    uiPc,               \* position in BridgeWndProc
    uiTo,               \* wParam of the request being served
    uiId,               \* lParam of the request being served
    uiName,             \* the local std::string name
    uiRaced,            \* the object being read was written meanwhile
    \* messages sent, in sending order
    fanPosted,          \* the windows this line's UPDATE was posted to
    bcast,              \* HWND_BROADCAST posts, in posting order
    reply,              \* the WM_COPYDATA that SendMessage is delivering
    \* bounds and history
    nConn, nRecv,
    nDisc,              \* connections that ended (recv returned <= 0)
    nClear,             \* disconnect cleanups done
    lastStart,          \* the value of the last start line of this connection
    uiExpect,           \* reverse lookup of uiId when the request was taken
    fanTouched,         \* consumers (un)registered during the current fan-out
    lastKind,           \* what the last line of this connection was
    received,           \* the bytes recv returned in this connection
    parsed              \* the lines handed to ProcessLine in this connection


vars == <<g_running, g_clients, g_nameToID, g_idToName, g_nextID,
          g_currentRomName, alive, netPc, netBuffer, fanMsg, fanIdx, fanEnd,
          fanBuf, fanLive, uiPc, uiTo, uiId, uiName, uiRaced, fanPosted,
          bcast, reply, nConn, nRecv, nDisc, nClear, lastStart, uiExpect,
          fanTouched, lastKind, received, parsed>>

NoTitle == <<"-">>
NoMsg == <<0, 0>>
NoReply == [to |-> NoConsumer]

\* The history of the byte stream (received, parsed) is kept only by the
\* specification whose Init starts it; elsewhere it stays at these values.
NoBytes == <<"-">>
Tracking == received # NoBytes
Track(h, x) == IF Tracking THEN h \o x ELSE h
Fresh(h) == IF Tracking THEN <<>> ELSE h

Init ==
    /\ g_running = TRUE
    /\ g_clients = <<>>
    /\ g_nameToID = EmptyMap
    /\ g_idToName = EmptyMap
    /\ g_nextID = 1
    /\ g_currentRomName = Sentinel
    /\ alive = TRUE
    /\ netPc = "loop"
    /\ netBuffer = <<>>
    /\ fanMsg = NoMsg
    /\ fanIdx = 1
    /\ fanEnd = 0
    /\ fanBuf = <<>>
    /\ fanLive = TRUE
    /\ uiPc = "idle"
    /\ uiTo = NoConsumer
    /\ uiId = 0
    /\ uiName = <<>>
    /\ uiRaced = FALSE
    /\ fanPosted = <<>>
    /\ bcast = <<>>
    /\ nConn = 0
    /\ nRecv = 0
    /\ nDisc = 0
    /\ nClear = 0
    /\ reply = NoReply
    /\ lastStart = NoTitle
    /\ uiExpect = <<>>
    /\ fanTouched = {}
    /\ lastKind = "none"
    /\ received = NoBytes
    /\ parsed = <<>>


(***************************************************************************)
(* Messages.  A START or STOP carries only the bridge's window handle; the *)
(* title field records g_currentRomName at the moment of the post, which   *)
(* is what a consumer asking for ID 0 at that moment is told.              *)
(***************************************************************************)
ReplyMsg(to, id, name) == [to |-> to, id |-> id, name |-> name]
StartMsg(title) == [type |-> "START", title |-> title]
StopMsg(title) == [type |-> "STOP", title |-> title]

\* The other thread is inside a read of the object being written.
TitleRead == uiPc = "copy"
MapRead == uiPc = "index"

\* g_currentRomName = title while the other thread copies it: the copy can
\* mix the two values unless they are the same bytes.
TitleRace(title) == TitleRead /\ title # g_currentRomName

\* g_idToName[key] = ... while the other thread looks up uiId: the lookup
\* is disturbed when a node is inserted or when the value it reads is the
\* one assigned; assigning to another existing node leaves it alone.
MapRace(key) == MapRead /\ (key \notin DOMAIN g_idToName \/ key = uiId)

(***************************************************************************)
(* GetIDForName                                                            *)
(***************************************************************************)
IsNewName(name) == name \notin DOMAIN g_nameToID

\* An allocator that numbers from 0 (what NewID is compared with).
NewIDFromZero == g_nextID - 1

NewID == g_nextID

GetIDForName(name) == IF IsNewName(name) THEN NewID ELSE g_nameToID[name]

NameToIDAfter(name) ==
    IF IsNewName(name) THEN Put(g_nameToID, name, NewID) ELSE g_nameToID

IdToNameAfter(name) ==
    IF IsNewName(name) THEN Put(g_idToName, NewID, name) ELSE g_idToName

NextIDAfter(name) == IF IsNewName(name) THEN g_nextID + 1 ELSE g_nextID

(***************************************************************************)
(* NetworkThread                                                           *)
(***************************************************************************)
\* while (g_running) { ... connect(...) == 0: reset, force START, wake up.
NetConnect ==
    /\ alive /\ netPc = "loop" /\ g_running
    /\ nConn < MaxConn
    /\ g_currentRomName' = Sentinel
    /\ g_idToName' = Put(g_idToName, 0, Sentinel)
    /\ bcast' = Append(bcast, StartMsg(Sentinel))
    /\ netBuffer' = <<>>
    /\ netPc' = "recv"
    /\ nConn' = nConn + 1
    /\ lastStart' = NoTitle
    /\ lastKind' = "none"
    /\ received' = Fresh(received)
    /\ parsed' = Fresh(parsed)
    /\ uiRaced' = (uiRaced \/ TitleRace(Sentinel) \/ MapRace(0))
    /\ UNCHANGED <<g_running, g_clients, g_nameToID, g_nextID, alive, fanMsg,
                   fanIdx, fanEnd, fanBuf, fanLive, uiPc, uiTo, uiId, uiName,
                   fanPosted, reply, nRecv, nDisc, nClear, uiExpect,
                   fanTouched>>

\* A failed connect that is announced to the consumers as a STOP (what
\* NetConnectFail is compared with).
NetConnectFailPostsStop ==
    /\ alive /\ netPc = "loop" /\ g_running
    /\ bcast' = Append(bcast, StopMsg(g_currentRomName))
    /\ netPc' = "sleep"
    /\ UNCHANGED <<g_running, g_clients, g_nameToID, g_idToName, g_nextID,
                   g_currentRomName, alive, netBuffer, fanMsg, fanIdx, fanEnd,
                   fanBuf, fanLive, uiPc, uiTo, uiId, uiName, uiRaced,
                   fanPosted, reply, nConn, nRecv, nDisc, nClear, lastStart,
                   uiExpect, fanTouched, lastKind, received, parsed>>

\* connect(...) != 0
NetConnectFail ==
    /\ alive /\ netPc = "loop" /\ g_running
    /\ netPc' = "sleep"
    /\ UNCHANGED <<g_running, g_clients, g_nameToID, g_idToName, g_nextID,
                   g_currentRomName, alive, netBuffer, fanMsg, fanIdx, fanEnd,
                   fanBuf, fanLive, uiPc, uiTo, uiId, uiName, uiRaced,
                   fanPosted, bcast, reply, nConn, nRecv, nDisc, nClear,
                   lastStart, uiExpect, fanTouched, lastKind, received, parsed>>

\* A thread that gives up after a failed connect (what NetSleep is compared
\* with).
NetSleepGivesUp ==
    /\ alive /\ netPc = "sleep"
    /\ netPc' = "done"
    /\ UNCHANGED <<g_running, g_clients, g_nameToID, g_idToName, g_nextID,
                   g_currentRomName, alive, netBuffer, fanMsg, fanIdx, fanEnd,
                   fanBuf, fanLive, uiPc, uiTo, uiId, uiName, uiRaced,
                   fanPosted, bcast, reply, nConn, nRecv, nDisc, nClear,
                   lastStart, uiExpect, fanTouched, lastKind, received, parsed>>

\* Sleep(2000); closesocket; WSACleanup; back to the loop condition.
NetSleep ==
    /\ alive /\ netPc = "sleep"
    /\ netPc' = "loop"
    /\ UNCHANGED <<g_running, g_clients, g_nameToID, g_idToName, g_nextID,
                   g_currentRomName, alive, netBuffer, fanMsg, fanIdx, fanEnd,
                   fanBuf, fanLive, uiPc, uiTo, uiId, uiName, uiRaced,
                   fanPosted, bcast, reply, nConn, nRecv, nDisc, nClear,
                   lastStart, uiExpect, fanTouched, lastKind, received, parsed>>

\* while (g_running) is false: the thread function returns.
NetExit ==
    /\ alive /\ netPc = "loop" /\ ~g_running
    /\ netPc' = "done"
    /\ UNCHANGED <<g_running, g_clients, g_nameToID, g_idToName, g_nextID,
                   g_currentRomName, alive, netBuffer, fanMsg, fanIdx, fanEnd,
                   fanBuf, fanLive, uiPc, uiTo, uiId, uiName, uiRaced,
                   fanPosted, bcast, reply, nConn, nRecv, nDisc, nClear,
                   lastStart, uiExpect, fanTouched, lastKind, received, parsed>>

\* A read loop that keeps only the bytes of the last recv (what NetRecv is
\* compared with).
NetRecvOverwrites(chunk) ==
    /\ alive /\ netPc = "recv"
    /\ nRecv < MaxRecv
    /\ netBuffer' = chunk
    /\ received' = Track(received, chunk)
    /\ netPc' = "split"
    /\ nRecv' = nRecv + 1
    /\ UNCHANGED <<g_running, g_clients, g_nameToID, g_idToName, g_nextID,
                   g_currentRomName, alive, fanMsg, fanIdx, fanEnd, fanBuf,
                   fanLive, uiPc, uiTo, uiId, uiName, uiRaced, fanPosted,
                   bcast, reply, nConn, nDisc, nClear, lastStart, uiExpect,
                   fanTouched, lastKind, parsed>>

\* recv returned n > 0 bytes: netBuffer.append(buffer, n)
NetRecv(chunk) ==
    /\ alive /\ netPc = "recv"
    /\ nRecv < MaxRecv
    /\ netBuffer' = netBuffer \o chunk
    /\ received' = Track(received, chunk)
    /\ netPc' = "split"
    /\ nRecv' = nRecv + 1
    /\ UNCHANGED <<g_running, g_clients, g_nameToID, g_idToName, g_nextID,
                   g_currentRomName, alive, fanMsg, fanIdx, fanEnd, fanBuf,
                   fanLive, uiPc, uiTo, uiId, uiName, uiRaced, fanPosted,
                   bcast, reply, nConn, nDisc, nClear, lastStart, uiExpect,
                   fanTouched, lastKind, parsed>>

\* A read loop that, when the stream ends, hands what is left in the buffer
\* to ProcessLine as a last line (what NetRecvEnd is compared with).
NetRecvEndFlushes ==
    /\ alive /\ netPc = "recv"
    /\ IF netBuffer = <<>>
       THEN /\ netPc' = "disc"
            /\ nDisc' = nDisc + 1
            /\ netBuffer' = netBuffer
       ELSE /\ netPc' = "split"
            /\ nDisc' = nDisc
            /\ netBuffer' = netBuffer \o <<CR>>
    /\ UNCHANGED <<g_running, g_clients, g_nameToID, g_idToName, g_nextID,
                   g_currentRomName, alive, fanMsg, fanIdx, fanEnd, fanBuf,
                   fanLive, uiPc, uiTo, uiId, uiName, uiRaced, fanPosted,
                   bcast, reply, nConn, nRecv, nClear, lastStart, uiExpect,
                   fanTouched, lastKind, received, parsed>>

\* recv returned <= 0: the read loop ends.
NetRecvEnd ==
    /\ alive /\ netPc = "recv"
    /\ netPc' = "disc"
    /\ nDisc' = nDisc + 1
    /\ UNCHANGED <<g_running, g_clients, g_nameToID, g_idToName, g_nextID,
                   g_currentRomName, alive, netBuffer, fanMsg, fanIdx, fanEnd,
                   fanBuf, fanLive, uiPc, uiTo, uiId, uiName, uiRaced,
                   fanPosted, bcast, reply, nConn, nRecv, nClear, lastStart,
                   uiExpect, fanTouched, lastKind, received, parsed>>

\* netBuffer.find('\r') == npos: back to recv.
NetSplitNone ==
    /\ alive /\ netPc = "split"
    /\ Find(netBuffer, CR) = 0
    /\ netPc' = "recv"
    /\ UNCHANGED <<g_running, g_clients, g_nameToID, g_idToName, g_nextID,
                   g_currentRomName, alive, netBuffer, fanMsg, fanIdx, fanEnd,
                   fanBuf, fanLive, uiPc, uiTo, uiId, uiName, uiRaced,
                   fanPosted, bcast, reply, nConn, nRecv, nDisc, nClear,
                   lastStart, uiExpect, fanTouched, lastKind, received, parsed>>

CurrentLine == SubSeq(netBuffer, 1, Find(netBuffer, CR) - 1)

\* netBuffer.erase(0, pos + 1)
ErasedLine == SubSeq(netBuffer, Find(netBuffer, CR) + 1, Len(netBuffer))

\* A ProcessLine that takes the stop keyword for the end of the session and
\* posts om_mame_stop (what NetLineNoop is compared with).
NetLineStopPosts ==
    /\ alive /\ netPc = "split"
    /\ Find(netBuffer, CR) # 0
    /\ LineKind(CurrentLine) \in {"noop", "stop"}
    /\ netBuffer' = ErasedLine
    /\ lastKind' = LineKind(CurrentLine)
    /\ parsed' = Track(parsed, <<CurrentLine>>)
    /\ bcast' = IF LineKind(CurrentLine) = "stop"
                THEN Append(bcast, StopMsg(g_currentRomName))
                ELSE bcast
    /\ UNCHANGED <<g_running, g_clients, g_nameToID, g_idToName, g_nextID,
                   g_currentRomName, alive, netPc, fanMsg, fanIdx, fanEnd,
                   fanBuf, fanLive, uiPc, uiTo, uiId, uiName, uiRaced,
                   fanPosted, reply, nConn, nRecv, nDisc, nClear, lastStart,
                   uiExpect, fanTouched, received>>

\* ProcessLine returns early: empty line, no '=', or the stop keyword.
NetLineNoop ==
    /\ alive /\ netPc = "split"
    /\ Find(netBuffer, CR) # 0
    /\ LineKind(CurrentLine) \in {"noop", "stop"}
    /\ netBuffer' = ErasedLine
    /\ lastKind' = LineKind(CurrentLine)
    /\ parsed' = Track(parsed, <<CurrentLine>>)
    /\ UNCHANGED <<g_running, g_clients, g_nameToID, g_idToName, g_nextID,
                   g_currentRomName, alive, netPc, fanMsg, fanIdx, fanEnd,
                   fanBuf, fanLive, uiPc, uiTo, uiId, uiName, uiRaced,
                   fanPosted, bcast, reply, nConn, nRecv, nDisc, nClear,
                   lastStart, uiExpect, fanTouched, received>>

\* ProcessLine, name == "mame_start"
NetLineStart ==
    /\ alive /\ netPc = "split"
    /\ Find(netBuffer, CR) # 0
    /\ LineKind(CurrentLine) = "start"
    /\ g_currentRomName' = LineValStr(CurrentLine)
    /\ g_idToName' = Put(g_idToName, 0, LineValStr(CurrentLine))
    /\ bcast' = Append(bcast, StartMsg(LineValStr(CurrentLine)))
    /\ netBuffer' = ErasedLine
    /\ lastStart' = LineValStr(CurrentLine)
    /\ lastKind' = "start"
    /\ parsed' = Track(parsed, <<CurrentLine>>)
    /\ uiRaced' = (uiRaced \/ TitleRace(LineValStr(CurrentLine))
                            \/ MapRace(0))
    /\ UNCHANGED <<g_running, g_clients, g_nameToID, g_nextID, alive, netPc,
                   fanMsg, fanIdx, fanEnd, fanBuf, fanLive, uiPc, uiTo, uiId,
                   uiName, fanPosted, reply, nConn, nRecv, nDisc, nClear,
                   uiExpect, fanTouched, received>>

\* An end iterator one element too far (what ClientsEnd is compared with).
ClientsEndOnePast == Len(g_clients) + 1

\* g_clients.end(), as an index: one past the last element is Len + 1, and
\* the loop visits the indices up to Len.
ClientsEnd == Len(g_clients)

\* ProcessLine, game output: atoi, GetIDForName, and the range-for over
\* g_clients takes its begin and end iterators.
NetLineUpdate ==
    /\ alive /\ netPc = "split"
    /\ Find(netBuffer, CR) # 0
    /\ LineKind(CurrentLine) = "update"
    /\ LET name == LineName(CurrentLine)
           msg == <<GetIDForName(name), Atoi(LineValStr(CurrentLine))>>
       IN /\ g_nameToID' = NameToIDAfter(name)
          /\ g_idToName' = IdToNameAfter(name)
          /\ g_nextID' = NextIDAfter(name)
          /\ uiRaced' = (uiRaced \/ (IsNewName(name) /\ MapRace(NewID)))
          /\ fanMsg' = msg
    /\ fanIdx' = 1
    /\ fanEnd' = ClientsEnd
    /\ fanBuf' = g_clients
    /\ fanLive' = TRUE
    /\ fanPosted' = <<>>
    /\ fanTouched' = {}
    /\ lastKind' = "update"
    /\ parsed' = Track(parsed, <<CurrentLine>>)
    /\ netPc' = "fanout"
    /\ UNCHANGED <<g_running, g_clients, g_currentRomName, alive, netBuffer,
                   uiPc, uiTo, uiId, uiName, bcast, reply, nConn, nRecv,
                   nDisc, nClear, lastStart, uiExpect, received>>

\* What *it yields: the element; from a freed buffer, the handle it held or
\* whatever has been written there since, which is no consumer's window.
FanTargets ==
    IF fanLive THEN {fanBuf[fanIdx]} ELSE {fanBuf[fanIdx], InvalidHwnd}

\* One iteration: PostMessage(client, om_mame_update_state, id, val).
NetFanStep ==
    /\ alive /\ netPc = "fanout"
    /\ fanIdx <= fanEnd
    /\ \E h \in FanTargets : fanPosted' = Append(fanPosted, h)
    /\ fanIdx' = fanIdx + 1
    /\ UNCHANGED <<g_running, g_clients, g_nameToID, g_idToName, g_nextID,
                   g_currentRomName, alive, netPc, netBuffer, fanMsg, fanEnd,
                   fanBuf, fanLive, uiPc, uiTo, uiId, uiName, uiRaced, bcast,
                   reply, nConn, nRecv, nDisc, nClear, lastStart, uiExpect,
                   fanTouched, lastKind, received, parsed>>

\* The iterator reached its end: ProcessLine returns, the line is erased.
NetFanEnd ==
    /\ alive /\ netPc = "fanout"
    /\ fanIdx > fanEnd
    /\ netBuffer' = ErasedLine
    /\ netPc' = "split"
    /\ fanMsg' = NoMsg
    /\ fanIdx' = 1
    /\ fanEnd' = 0
    /\ fanBuf' = <<>>
    /\ fanLive' = TRUE
    /\ fanPosted' = <<>>
    /\ fanTouched' = {}
    /\ UNCHANGED <<g_running, g_clients, g_nameToID, g_idToName, g_nextID,
                   g_currentRomName, alive, uiPc, uiTo, uiId, uiName, uiRaced,
                   bcast, reply, nConn, nRecv, nDisc, nClear, lastStart,
                   uiExpect, lastKind, received, parsed>>

\* The disconnect path without its broadcast (what NetStop is compared with).
NetStopSilent ==
    /\ alive /\ netPc = "disc"
    /\ netPc' = "reset"
    /\ UNCHANGED <<g_running, g_clients, g_nameToID, g_idToName, g_nextID,
                   g_currentRomName, alive, netBuffer, fanMsg, fanIdx, fanEnd,
                   fanBuf, fanLive, uiPc, uiTo, uiId, uiName, uiRaced,
                   fanPosted, bcast, reply, nConn, nRecv, nDisc, nClear,
                   lastStart, uiExpect, fanTouched, lastKind, received, parsed>>

\* PostMessage(HWND_BROADCAST, om_mame_stop, ...)
NetStop ==
    /\ alive /\ netPc = "disc"
    /\ bcast' = Append(bcast, StopMsg(g_currentRomName))
    /\ netPc' = "reset"
    /\ UNCHANGED <<g_running, g_clients, g_nameToID, g_idToName, g_nextID,
                   g_currentRomName, alive, netBuffer, fanMsg, fanIdx, fanEnd,
                   fanBuf, fanLive, uiPc, uiTo, uiId, uiName, uiRaced,
                   fanPosted, reply, nConn, nRecv, nDisc, nClear, lastStart,
                   uiExpect, fanTouched, lastKind, received, parsed>>

\* g_currentRomName = "___empty": the first statement of the cleanup.  The
\* window-message thread can serve requests before the next one.
NetResetTitle ==
    /\ alive /\ netPc = "reset"
    /\ g_currentRomName' = Sentinel
    /\ lastStart' = NoTitle
    /\ uiRaced' = (uiRaced \/ TitleRace(Sentinel))
    /\ netPc' = "clear"
    /\ UNCHANGED <<g_running, g_clients, g_nameToID, g_idToName, g_nextID,
                   alive, netBuffer, fanMsg, fanIdx, fanEnd, fanBuf, fanLive,
                   uiPc, uiTo, uiId, uiName, fanPosted, bcast, reply, nConn,
                   nRecv, nDisc, nClear, uiExpect, fanTouched, lastKind,
                   received, parsed>>

\* g_nameToID.clear(); g_idToName.clear(); g_nextID = 1; netBuffer goes
\* out of scope; closesocket.
NetClear ==
    /\ alive /\ netPc = "clear"
    /\ g_nameToID' = EmptyMap
    /\ g_idToName' = EmptyMap
    /\ g_nextID' = 1
    /\ netBuffer' = <<>>
    /\ netPc' = "loop"
    /\ nClear' = nClear + 1
    /\ uiRaced' = (uiRaced \/ MapRead)
    /\ UNCHANGED <<g_running, g_clients, g_currentRomName, alive, fanMsg,
                   fanIdx, fanEnd, fanBuf, fanLive, uiPc, uiTo, uiId, uiName,
                   fanPosted, bcast, reply, nConn, nRecv, nDisc, lastStart,
                   uiExpect, fanTouched, lastKind, received, parsed>>

NetStep ==
    \/ NetConnect
    \/ NetConnectFail
    \/ NetSleep
    \/ NetExit
    \/ \E chunk \in Chunks : NetRecv(chunk)
    \/ NetRecvEnd
    \/ NetSplitNone
    \/ NetLineNoop
    \/ NetLineStart
    \/ NetLineUpdate
    \/ NetFanStep
    \/ NetFanEnd
    \/ NetStop
    \/ NetResetTitle
    \/ NetClear


(***************************************************************************)
(* BridgeWndProc and the message loop (window-message thread)              *)
(***************************************************************************)
\* std::vector::push_back seen from a range-for in progress on the other
\* thread: the element lands behind the current size in the same buffer, or
\* the vector moves to a new buffer and the iterators are left in the old.
PushBackKeepsBuffer(c) ==
    /\ fanBuf' = IF Len(g_clients) + 1 <= Len(fanBuf)
                 THEN [fanBuf EXCEPT ![Len(g_clients) + 1] = c]
                 ELSE Append(fanBuf, c)
    /\ fanLive' = fanLive

PushBackReallocates ==
    /\ Len(g_clients) + 1 > Len(fanBuf)
    /\ fanBuf' = fanBuf
    /\ fanLive' = FALSE

\* A registration that is answered with a START broadcast (what Register is
\* compared with).
RegisterAnnounces(c) ==
    /\ alive /\ uiPc = "idle"
    /\ Len(g_clients) < MaxClients
    /\ g_clients' = Append(g_clients, c)
    /\ bcast' = Append(bcast, StartMsg(g_currentRomName))
    /\ IF netPc = "fanout" /\ fanLive
       THEN PushBackKeepsBuffer(c) \/ PushBackReallocates
       ELSE UNCHANGED <<fanBuf, fanLive>>
    /\ fanTouched' = IF netPc = "fanout" THEN fanTouched \cup {c}
                     ELSE fanTouched
    /\ UNCHANGED <<g_running, g_nameToID, g_idToName, g_nextID,
                   g_currentRomName, alive, netPc, netBuffer, fanMsg, fanIdx,
                   fanEnd, uiPc, uiTo, uiId, uiName, uiRaced, fanPosted,
                   reply, nConn, nRecv, nDisc, nClear, lastStart, uiExpect,
                   lastKind, received, parsed>>

\* msg == om_mame_register_client
Register(c) ==
    /\ alive /\ uiPc = "idle"
    /\ Len(g_clients) < MaxClients
    /\ g_clients' = Append(g_clients, c)
    /\ IF netPc = "fanout" /\ fanLive
       THEN PushBackKeepsBuffer(c) \/ PushBackReallocates
       ELSE UNCHANGED <<fanBuf, fanLive>>
    /\ fanTouched' = IF netPc = "fanout" THEN fanTouched \cup {c}
                     ELSE fanTouched
    /\ UNCHANGED <<g_running, g_nameToID, g_idToName, g_nextID,
                   g_currentRomName, alive, netPc, netBuffer, fanMsg, fanIdx,
                   fanEnd, uiPc, uiTo, uiId, uiName, uiRaced, fanPosted,
                   bcast, reply, nConn, nRecv, nDisc, nClear, lastStart,
                   uiExpect, lastKind, received, parsed>>

\* The position of the first element equal to c (the loop's break), 0 if none.
FirstIndex(s, c) == Find(s, c)

\* std::vector::erase(it): the elements behind it move down by one.
Erase(s, k) == SubSeq(s, 1, k - 1) \o SubSeq(s, k + 1, Len(s))

\* The same erase seen through iterators into the buffer: the slot of the
\* former last element keeps its value.
EraseInBuffer(buf, size, k) ==
    [i \in 1..Len(buf) |-> IF i >= k /\ i < size THEN buf[i + 1] ELSE buf[i]]

\* msg == om_mame_unregister_client
Unregister(c) ==
    /\ alive /\ uiPc = "idle"
    /\ LET k == FirstIndex(g_clients, c) IN
         /\ g_clients' = IF k = 0 THEN g_clients ELSE Erase(g_clients, k)
         /\ fanBuf' = IF k # 0 /\ netPc = "fanout" /\ fanLive
                      THEN EraseInBuffer(fanBuf, Len(g_clients), k)
                      ELSE fanBuf
    /\ fanTouched' = IF netPc = "fanout" THEN fanTouched \cup {c}
                     ELSE fanTouched
    /\ UNCHANGED <<g_running, g_nameToID, g_idToName, g_nextID,
                   g_currentRomName, alive, netPc, netBuffer, fanMsg, fanIdx,
                   fanEnd, fanLive, uiPc, uiTo, uiId, uiName, uiRaced,
                   fanPosted, bcast, reply, nConn, nRecv, nDisc, nClear,
                   lastStart, uiExpect, lastKind, received, parsed>>

\* The name the handler computes for id when nothing interferes.
ReverseLookup(id) ==
    IF id = 0 THEN g_currentRomName
    ELSE IF id \in DOMAIN g_idToName THEN g_idToName[id]
    ELSE <<>>

\* msg == om_mame_get_id_string, up to the test that selects the branch:
\* id == 0 starts copying g_currentRomName; g_idToName.count(id) decides
\* between the indexing branch and the empty name.
ResolveBegin(c, id) ==
    /\ alive /\ uiPc = "idle"
    /\ uiTo' = c
    /\ uiId' = id
    /\ uiRaced' = FALSE
    /\ uiExpect' = ReverseLookup(id)
    /\ uiPc' = IF id = 0 THEN "copy"
               ELSE IF id \in DOMAIN g_idToName THEN "index"
               ELSE "miss"
    /\ uiName' = IF id = 0 THEN g_currentRomName ELSE <<>>
    /\ UNCHANGED <<g_running, g_clients, g_nameToID, g_idToName, g_nextID,
                   g_currentRomName, alive, netPc, netBuffer, fanMsg, fanIdx,
                   fanEnd, fanBuf, fanLive, fanPosted, bcast, reply, nConn,
                   nRecv, nDisc, nClear, lastStart, fanTouched, lastKind,
                   received, parsed>>

\* The names the handler can end up with.
ResolvedNames ==
    CASE uiPc = "copy" ->
           {uiName} \cup (IF uiRaced THEN {g_currentRomName, Torn} ELSE {})
      [] uiPc = "index" ->
           {ReverseLookup(uiId)} \cup (IF uiRaced THEN {Torn} ELSE {})
      [] OTHER -> {<<>>}

\* g_idToName[id] inserts an empty name when the key is gone.
IdToNameAfterIndex ==
    IF uiPc = "index" /\ uiId \notin DOMAIN g_idToName
    THEN Put(g_idToName, uiId, <<>>)
    ELSE g_idToName

\* The rest of the handler: name is complete, the reply is built and
\* SendMessage((HWND)wParam, WM_COPYDATA, ...) is entered.
ResolveReply ==
    /\ alive /\ uiPc \in {"copy", "index", "miss"}
    /\ \E name \in ResolvedNames :
         /\ uiName' = name
         /\ reply' = ReplyMsg(uiTo, uiId, name)
    /\ g_idToName' = IdToNameAfterIndex
    /\ uiPc' = "wait"
    /\ UNCHANGED <<g_running, g_clients, g_nameToID, g_nextID,
                   g_currentRomName, alive, netPc, netBuffer, fanMsg, fanIdx,
                   fanEnd, fanBuf, fanLive, uiTo, uiId, uiRaced, fanPosted,
                   bcast, nConn, nRecv, nDisc, nClear, lastStart, uiExpect,
                   fanTouched, lastKind, received, parsed>>

\* The requester's window procedure has processed WM_COPYDATA: SendMessage
\* returns, and the handler returns 1.  Until then the thread waits.
ReplyProcessed ==
    /\ alive /\ uiPc = "wait"
    /\ uiPc' = "idle"
    /\ uiTo' = NoConsumer
    /\ uiId' = 0
    /\ uiName' = <<>>
    /\ uiRaced' = FALSE
    /\ uiExpect' = <<>>
    /\ reply' = NoReply
    /\ UNCHANGED <<g_running, g_clients, g_nameToID, g_idToName, g_nextID,
                   g_currentRomName, alive, netPc, netBuffer, fanMsg, fanIdx,
                   fanEnd, fanBuf, fanLive, fanPosted, bcast, nConn, nRecv,
                   nDisc, nClear, lastStart, fanTouched, lastKind, received,
                   parsed>>

\* GUIWndProc, WM_DESTROY: PostQuitMessage(0); g_running = false.
Destroy ==
    /\ alive /\ uiPc = "idle"
    /\ g_running
    /\ g_running' = FALSE
    /\ UNCHANGED <<g_clients, g_nameToID, g_idToName, g_nextID,
                   g_currentRomName, alive, netPc, netBuffer, fanMsg, fanIdx,
                   fanEnd, fanBuf, fanLive, uiPc, uiTo, uiId, uiName, uiRaced,
                   fanPosted, bcast, reply, nConn, nRecv, nDisc, nClear,
                   lastStart, uiExpect, fanTouched, lastKind, received, parsed>>

\* GetMessage returns 0, WinMain returns: the process and its detached
\* network thread end, wherever that thread is, and their memory is gone.
\* What was posted stays posted.
ProcessExit ==
    /\ alive /\ uiPc = "idle"
    /\ ~g_running
    /\ alive' = FALSE
    /\ g_clients' = <<>>
    /\ g_nameToID' = EmptyMap
    /\ g_idToName' = EmptyMap
    /\ g_nextID' = 1
    /\ g_currentRomName' = <<>>
    /\ netPc' = "done"
    /\ netBuffer' = <<>>
    /\ fanMsg' = NoMsg
    /\ fanIdx' = 1
    /\ fanEnd' = 0
    /\ fanBuf' = <<>>
    /\ fanLive' = TRUE
    /\ fanTouched' = {}
    /\ fanPosted' = <<>>
    /\ UNCHANGED <<g_running, uiPc, uiTo, uiId, uiName, uiRaced, bcast, reply,
                   nConn, nRecv, nDisc, nClear, lastStart, uiExpect, lastKind,
                   received, parsed>>

UiStep ==
    \/ \E c \in Consumers : Register(c)
    \/ \E c \in Consumers : Unregister(c)
    \/ \E c \in Requesters, id \in ReqIds : ResolveBegin(c, id)
    \/ ResolveReply
    \/ ReplyProcessed
    \/ Destroy
    \/ ProcessExit

Next == NetStep \/ UiStep

Spec == Init /\ [][Next]_vars

(***************************************************************************)
(* Sanity of the model's own bookkeeping.                                  *)
(***************************************************************************)
TypeOK ==
    /\ g_running \in BOOLEAN /\ alive \in BOOLEAN
    /\ netPc \in {"loop", "sleep", "recv", "split", "fanout", "disc",
                  "reset", "clear", "done"}
    /\ uiPc \in {"idle", "copy", "index", "miss", "wait"}
    /\ Range(g_clients) \subseteq Consumers
    /\ g_nextID \in Nat \ {0}

\* While the iterators are valid, the buffer holds the vector's elements.
BufferMirrorsVector ==
    (netPc = "fanout" /\ fanLive) =>
        /\ Len(fanBuf) >= Len(g_clients)
        /\ Len(fanBuf) >= fanEnd
        /\ SubSeq(fanBuf, 1, Len(g_clients)) = g_clients

(***************************************************************************)
(* Properties.                                                             *)
(***************************************************************************)
Count(s, x) == Cardinality({i \in DOMAIN s : s[i] = x})

NumOfType(t) == Cardinality({i \in DOMAIN bcast : bcast[i].type = t})

\* The range-for of the current update line has posted to its last window.
FanOutDone == alive /\ netPc = "fanout" /\ fanIdx > fanEnd

\* C1: a consumer whose registration did not change while an update line was
\* being fanned out is sent that line's UPDATE once for each registration it
\* holds (once if it registered once, not at all if it is not registered),
\* so a consumer that stays registered over N lines is sent exactly those N
\* UPDATEs, line by line.
C1_UpdatePerRegistration ==
    FanOutDone =>
        \A c \in Consumers \ fanTouched :
            Count(fanPosted, c) = Count(g_clients, c)

\* A consumer registered once, never touched during the line, posted twice.
C1_PostedTwice ==
    /\ FanOutDone
    /\ \E c \in Consumers \ fanTouched :
         Count(g_clients, c) = 1 /\ Count(fanPosted, c) = 2

\* C2: every disconnect that the thread has handled has produced exactly
\* one STOP, posted before the cleanup that clears the maps; every connect
\* has produced exactly one START under the sentinel title, and that START
\* is the first broadcast of its connection, ahead of any START that a
\* start line causes.  (A disconnect being handled when the process exits
\* is the only one that can lack its STOP.)
C2_OneStopOneSentinelStart ==
    /\ nClear <= NumOfType("STOP") /\ NumOfType("STOP") <= nDisc
    /\ nDisc <= nClear + 1 /\ nDisc <= nConn
    /\ netPc = "disc" => NumOfType("STOP") = nDisc - 1
    /\ netPc \in {"reset", "clear"} =>
           NumOfType("STOP") = nDisc /\ nClear = nDisc - 1
    /\ (alive /\ netPc \notin {"disc", "reset", "clear"}) =>
           NumOfType("STOP") = nDisc /\ nClear = nDisc
    /\ Count(bcast, StartMsg(Sentinel)) = nConn
    /\ \A i \in DOMAIN bcast :
           bcast[i] = StartMsg(Sentinel) <=>
               (i = 1 \/ bcast[i - 1].type = "STOP")

\* Two connections, the first with a title: START, START(title), STOP, START.
C2_Reconnected ==
    /\ nClear = 1
    /\ bcast = <<StartMsg(Sentinel), StartMsg(<<"p">>), StopMsg(<<"p">>),
                 StartMsg(Sentinel)>>

\* The two tables are each other's inverse over the non-zero IDs.
InverseTables ==
    /\ \A n \in DOMAIN g_nameToID :
           /\ g_nameToID[n] \in DOMAIN g_idToName \ {0}
           /\ g_idToName[g_nameToID[n]] = n
    /\ \A i \in DOMAIN g_idToName \ {0} :
           /\ g_idToName[i] \in DOMAIN g_nameToID
           /\ g_nameToID[g_idToName[i]] = i

\* A name keeps its ID for as long as its connection is not cleaned up.
StableIDs ==
    netPc # "clear" =>
        \A n \in DOMAIN g_nameToID :
            n \in DOMAIN g_nameToID' /\ g_nameToID'[n] = g_nameToID[n]

\* C3: within a connection a name keeps the ID it was given, and after
\* every step the name-to-ID and ID-to-name tables are inverse bijections
\* over the non-zero IDs.
C3_StableInverseTables == [][alive' => (StableIDs /\ InverseTables')]_vars

\* C4: when a connection is established after a disconnect, the next ID is
\* 1, no name has an ID and the ID-to-name table holds nothing but the
\* reserved ID 0; and the first name of any connection is given ID 1.
C4_FreshGeneration ==
    [][/\ (netPc = "loop" /\ netPc' = "recv" /\ nDisc > 0) =>
              /\ g_nextID' = 1
              /\ g_nameToID' = EmptyMap
              /\ DOMAIN g_idToName' = {0}
       /\ (netPc = "split" /\ netPc' = "fanout" /\ g_nameToID = EmptyMap) =>
              fanMsg'[1] = 1]_vars

\* What only the network thread changes, and changes in each of its steps
\* that writes a global.
NetLocals == <<netPc, netBuffer, fanIdx>>

\* C5: no step of the network thread changes the name tables, the next ID,
\* the title or the client list; whatever changes them is a step of the
\* window-message thread.
C5_NetThreadMutatesNothing ==
    [][(alive' /\ <<g_nameToID, g_idToName, g_nextID, g_currentRomName,
                    g_clients>>' #
                  <<g_nameToID, g_idToName, g_nextID, g_currentRomName,
                    g_clients>>)
          => UNCHANGED NetLocals]_vars

\* C6: the client list does not change while the fan-out loop over it still
\* has an element to visit.
C6_NoMutationDuringFanOut ==
    [][(alive' /\ netPc = "fanout" /\ fanIdx <= fanEnd)
          => g_clients' = g_clients]_vars

\* The title a consumer is to be told: the sentinel until a start line of
\* the current connection has been parsed, then the value of the latest one.
Announced == IF lastStart = NoTitle THEN Sentinel ELSE lastStart

\* C7: the reply to a request for ID 0 carries the announced title: the one
\* in force when the request was taken, or the one in force when the reply
\* is sent.
C7_TitleReply ==
    [][(uiPc = "copy" /\ uiPc' = "wait")
          => reply'.name \in {uiExpect, Announced}]_vars

\* C8: once an unregister request of c has been processed, c is not in the
\* client list, whatever was registered before.
C8_UnregisterRemoves ==
    [][\A c \in Consumers : Unregister(c) => c \notin Range(g_clients')]_vars

\* C9: a reply is sent once per request, from the handler of that request,
\* to the requester, with the requested ID and the name the reverse lookup
\* gives for it (when the request was taken or when the reply is sent); the
\* step posts nothing to the broadcast channel or to a registered consumer.
C9_ReplyToRequester ==
    [][(reply' # reply /\ reply' # NoReply) =>
           /\ uiPc \in {"copy", "index", "miss"} /\ reply = NoReply
           /\ reply'.to = uiTo /\ reply'.id = uiId
           /\ reply'.name \in {uiExpect, ReverseLookup(uiId)}
           /\ UNCHANGED <<bcast, fanPosted>>]_vars

\* C10: the window-message thread is never inside a send that returns only
\* when a consumer has processed the message, so it can always take the
\* next register, unregister or resolve request.
C10_NeverWaitsForConsumer == ~(alive /\ uiPc = "wait")

(***************************************************************************)
(* Progress.  The network thread is scheduled: a step of its own that is   *)
(* possible is eventually taken.  recv is not such a step, it returns when *)
(* the producer sends or closes.  A producer that can be reached again and *)
(* again eventually accepts a connect.                                     *)
(***************************************************************************)
NetOwnStep ==
    \/ NetConnect
    \/ NetConnectFail
    \/ NetSleep
    \/ NetExit
    \/ NetSplitNone
    \/ NetLineNoop
    \/ NetLineStart
    \/ NetLineUpdate
    \/ NetFanStep
    \/ NetFanEnd
    \/ NetStop
    \/ NetResetTitle
    \/ NetClear

\* The steps that bear on the thread's progress: its own, the requests that
\* change the client list it iterates, and the shutdown.
RetryNext ==
    \/ NetStep
    \/ \E c \in Consumers : Register(c)
    \/ \E c \in Consumers : Unregister(c)
    \/ Destroy
    \/ ProcessExit

LiveSpec ==
    Init /\ [][RetryNext]_vars /\ WF_vars(NetOwnStep) /\ SF_vars(NetConnect)

\* The thread is on its way back to the loop condition after a failed
\* connect or after a connection ended.
Retrying == alive /\ netPc \in {"sleep", "disc", "reset", "clear"}

\* connect() has returned: with 0 (the START is posted) or with an error.
Attempted == netPc \in {"recv", "sleep"}

ShutDown == ~g_running \/ ~alive

\* C11: unless the process is shut down, a failed connect and a disconnect
\* lead back to the loop condition and from there to another connect
\* attempt, however many attempts were made before; and where the producer
\* accepts again and again, an attempt succeeds and the START is posted.
C11_RetriesForever ==
    /\ Retrying ~> (netPc = "loop" \/ ~alive)
    /\ (alive /\ netPc = "loop") ~> (Attempted \/ ShutDown)
    /\ (Retrying /\ nConn < MaxConn) ~>
           (ShutDown \/ (netPc = "recv" /\ bcast # <<>>
                           /\ bcast[Len(bcast)] = StartMsg(Sentinel)))

\* A failed attempt that follows a disconnect.
C11_FailedAfterDisconnect == alive /\ netPc = "sleep" /\ nDisc > 0

\* The name tables hold no name and the next ID is 1 (the reserved ID 0 may
\* be present: it is set with the title).
RegistryIsReset ==
    /\ g_nameToID = EmptyMap
    /\ DOMAIN g_idToName \subseteq {0}
    /\ g_nextID = 1

\* C12: every step that resets the title (the cleanup after a disconnect,
\* the reset on connect) or clears the name tables leaves both reset: the
\* title is the sentinel and the tables are empty with the next ID at 1.
C12_ResetTogether ==
    [][(NetResetTitle \/ NetClear \/ NetConnect) =>
           (g_currentRomName' = Sentinel /\ RegistryIsReset')]_vars

\* C13: no step of the network thread (connect, read, disconnect, cleanup)
\* changes the client list, and in a connection that follows a disconnect
\* every consumer whose registration did not change during a line's fan-out
\* has been posted that line's UPDATE once per registration when the
\* fan-out ends.
C13_RegistrySurvivesReconnect ==
    [][alive' =>
           /\ (NetLocals' # NetLocals) => g_clients' = g_clients
           /\ (netPc = "fanout" /\ netPc' = "split" /\ nDisc > 0) =>
                  \A c \in Consumers \ fanTouched :
                      Count(fanPosted, c) = Count(g_clients, c)]_vars

(***************************************************************************)
(* ProcessLine on its own: one line, drawn from the set below, has been    *)
(* received on the first connection and is split off and processed.        *)
(***************************************************************************)
\* Sequences over S of length at most n.
RECURSIVE SeqsUpTo(_, _)
SeqsUpTo(S, n) ==
    IF n = 0 THEN {<<>>}
    ELSE LET shorter == SeqsUpTo(S, n - 1)
         IN shorter \cup {Append(t, x) : t \in shorter, x \in S}

\* Text left of '=': plain, padded with blanks, with a character to strip,
\* the two keywords, and nothing.
ParseNames ==
    { <<"a">>, <<"a", " ">>, <<" ", "a">>, <<"a", "$", "b">>,
      StartKeyword, StopKeyword \o <<" ">>, <<>> }

ValueChars == {"0", "1", "2", " ", "-", ".", "x"}

\* Text right of '='.
ParseValues == SeqsUpTo(ValueChars, MaxValLen)

ParseLines == {n \o <<"=">> \o v : n \in ParseNames, v \in ParseValues}

ParseInit ==
    /\ g_running = TRUE
    /\ g_clients \in {<<>>, <<"c1">>}
    /\ g_nameToID = EmptyMap
    /\ g_idToName = Put(EmptyMap, 0, Sentinel)
    /\ g_nextID = 1
    /\ g_currentRomName = Sentinel
    /\ alive = TRUE
    /\ netPc = "split"
    /\ \E line \in ParseLines : netBuffer = line \o <<CR>>
    /\ fanMsg = NoMsg
    /\ fanIdx = 1
    /\ fanEnd = 0
    /\ fanBuf = <<>>
    /\ fanLive = TRUE
    /\ uiPc = "idle"
    /\ uiTo = NoConsumer
    /\ uiId = 0
    /\ uiName = <<>>
    /\ uiRaced = FALSE
    /\ fanPosted = <<>>
    /\ bcast = <<StartMsg(Sentinel)>>
    /\ reply = NoReply
    /\ nConn = 1
    /\ nRecv = 1
    /\ nDisc = 0
    /\ nClear = 0
    /\ lastStart = NoTitle
    /\ uiExpect = <<>>
    /\ fanTouched = {}
    /\ lastKind = "none"
    /\ received = NoBytes
    /\ parsed = <<>>

ParseNext ==
    \/ NetSplitNone
    \/ NetLineNoop
    \/ NetLineStart
    \/ NetLineUpdate
    \/ NetFanStep
    \/ NetFanEnd

ParseSpec == ParseInit /\ [][ParseNext]_vars

\* A non-empty string of decimal digits.
IsNumeral(s) == Len(s) > 0 /\ \A i \in DOMAIN s : s[i] \in Digits

RECURSIVE NumeralValue(_)
NumeralValue(s) ==
    IF Len(s) = 0 THEN 0
    ELSE NumeralValue(SubSeq(s, 1, Len(s) - 1)) * 10 + DigitVal(s[Len(s)])

\* The value the line denotes: that of its sanitized right-hand side if it
\* is an integer numeral, 0 otherwise.
DenotedValue(line) ==
    IF IsNumeral(LineValStr(line)) THEN NumeralValue(LineValStr(line)) ELSE 0

\* C14: a line with '=' whose sanitized name is not a keyword is processed
\* as the update of its sanitized name (the name the ID stands for) with the
\* integer its sanitized right-hand side denotes, 0 when that text is empty
\* or is not an integer numeral.
C14_UpdateOfLine ==
    [][(netPc = "split" /\ netPc' = "fanout") =>
           /\ LineName(CurrentLine) \in DOMAIN g_nameToID'
           /\ fanMsg'[1] = g_nameToID'[LineName(CurrentLine)]
           /\ fanMsg'[2] = DenotedValue(CurrentLine)]_vars

\* The network thread hands the line at the head of netBuffer to
\* ProcessLine.
LineProcessed ==
    /\ netPc = "split" /\ Find(netBuffer, CR) # 0
    /\ alive' /\ <<netPc, netBuffer>>' # <<netPc, netBuffer>>

\* The text right of the first '=' of the current line, sanitized.
SanitizedValue ==
    CleanString(SubSeq(CurrentLine, Find(CurrentLine, "=") + 1,
                       Len(CurrentLine)))

\* C15: processing a line whose sanitized name is the start keyword sets
\* the title and the name of ID 0 to the sanitized value and posts one
\* START (under that title); it changes no other ID-to-name entry, the
\* name-to-ID table, the next ID and the client list not at all, and posts
\* no UPDATE.
C15_StartLine ==
    [][(LineProcessed /\ LineKind(CurrentLine) = "start") =>
           /\ g_currentRomName' = SanitizedValue
           /\ g_idToName' = Put(g_idToName, 0, SanitizedValue)
           /\ bcast' = Append(bcast, [type |-> "START",
                                      title |-> SanitizedValue])
           /\ netPc' = "split"
           /\ UNCHANGED <<g_nameToID, g_nextID, g_clients, fanMsg,
                          fanPosted, reply>>]_vars

\* A start line with characters to strip has been processed.
C15_TitleSanitized ==
    /\ bcast = <<StartMsg(Sentinel), StartMsg(<<"1", "x">>)>>
    /\ g_currentRomName = <<"1", "x">>
    /\ g_idToName[0] = <<"1", "x">>
    /\ netBuffer = <<>>

\* C16: processing a line whose sanitized name is the stop keyword posts
\* nothing and changes neither the name tables, the next ID, the title nor
\* the client list; and a STOP is posted only by the thread that has just
\* seen its connection end.
C16_StopLineIsNoop ==
    [][/\ (LineProcessed /\ LineKind(CurrentLine) = "stop") =>
              /\ netPc' = "split"
              /\ UNCHANGED <<bcast, fanPosted, fanMsg, reply, g_nameToID,
                             g_idToName, g_nextID, g_currentRomName,
                             g_clients>>
       /\ (bcast' # bcast /\ bcast'[Len(bcast')].type = "STOP") =>
              netPc = "disc"]_vars

\* A stop line has been processed and the connection then ended.
C16_StopLineThenDisconnect ==
    /\ lastKind = "stop"
    /\ bcast = <<StartMsg(Sentinel), StopMsg(Sentinel)>>

\* No name of the current connection has been given this ID.
NotIssued(id) == \A n \in DOMAIN g_nameToID : g_nameToID[n] # id

NumNames == Cardinality(DOMAIN g_nameToID)

\* The IDs given so far in this connection are 1, 2, ..., up to the number
\* of names, and the next ID follows them.
IdsAreOneToK ==
    /\ {g_nameToID[n] : n \in DOMAIN g_nameToID} = 1..NumNames
    /\ g_nextID = NumNames + 1

\* C18: in every state the IDs given in the current connection are exactly
\* 1..k for its k names; the ID that GetIDForName returns for a line is
\* never 0: a new name, the (k+1)-th, gets k+1, and a known name gets the
\* ID it has.
C18_IdsCountFromOne ==
    [][/\ IdsAreOneToK'
       /\ (netPc = "split" /\ netPc' = "fanout") =>
              /\ fanMsg'[1] # 0
              /\ fanMsg'[1] = IF IsNewName(LineName(CurrentLine))
                              THEN NumNames + 1
                              ELSE g_nameToID[LineName(CurrentLine)]]_vars

\* Two names in one connection, b before a.
C18_SecondNameGetsTwo ==
    /\ g_nameToID = Put(Put(EmptyMap, <<"b">>, 1), <<"a">>, 2)
    /\ fanMsg[1] = 2

\* C19: when the client list is empty as an update line is processed, the
\* fan-out loop has nothing to visit and the line posts nothing (no UPDATE,
\* no broadcast, no reply); an UPDATE is posted only by a loop that still
\* has an element to visit; and a loop with nothing left to visit ends with
\* the line erased and the thread back at splitting the next line.
C19_EmptyRegistryNoUpdate ==
    [][/\ (netPc = "split" /\ netPc' = "fanout" /\ g_clients = <<>>) =>
              /\ fanIdx' > fanEnd'
              /\ fanPosted' = <<>> /\ bcast' = bcast /\ reply' = reply
       /\ (fanPosted' # fanPosted /\ fanPosted' # <<>>) =>
              (netPc = "fanout" /\ fanIdx <= fanEnd)
       /\ (alive' /\ netPc = "fanout" /\ fanIdx > fanEnd
             /\ NetLocals' # NetLocals) =>
              /\ netPc' = "split" /\ netBuffer' = ErasedLine
              /\ bcast' = bcast /\ reply' = reply]_vars

\* An update line is being processed with nobody registered.
C19_UpdateWithNoClients ==
    /\ netPc = "fanout" /\ fanMsg = <<1, 1>>
    /\ g_clients = <<>> /\ fanTouched = {}
    /\ fanPosted = <<>>

\* C20: processing a zero-length line or a line without '=' posts nothing
\* and changes neither the name tables, the next ID, the title nor the
\* client list; the line is erased and the thread goes on splitting what
\* follows it.
C20_MalformedLineIsNoop ==
    [][(LineProcessed /\ (Len(CurrentLine) = 0
                           \/ Find(CurrentLine, "=") = 0)) =>
           /\ netPc' = "split" /\ netBuffer' = ErasedLine
           /\ UNCHANGED <<bcast, fanPosted, fanMsg, reply, g_nameToID,
                          g_idToName, g_nextID, g_currentRomName,
                          g_clients>>]_vars

\* After the update of a, a line without '=' or an empty one was processed,
\* and the thread is back in recv.
C20_NoopAfterUpdate ==
    /\ lastKind = "noop" /\ netPc = "recv" /\ nRecv = 2
    /\ g_nameToID = Put(EmptyMap, <<"a">>, 1) /\ g_nextID = 2

\* What consumers can be sent or told, and the client list.
Surfaced ==
    <<bcast, fanPosted, fanMsg, reply, g_nameToID, g_idToName, g_nextID,
      g_currentRomName, g_clients>>

\* C21: a failed connect attempt (the failing connect and the sleep that
\* follows it) posts no START, STOP or UPDATE and changes neither the name
\* tables, the next ID, the title nor the client list; a failed read posts
\* nothing itself, and what follows it up to the next connect attempt posts
\* exactly one message, the STOP of the lost connection.
C21_FailedConnectNotSurfaced ==
    [][/\ (alive' /\ (\/ (netPc = "loop" /\ netPc' = "sleep")
                      \/ (netPc = "sleep" /\ netPc' = "loop")
                      \/ (netPc = "recv" /\ netPc' = "disc"))) =>
              UNCHANGED Surfaced
       /\ (alive' /\ netPc = "disc" /\ netPc' # "disc") =>
              /\ bcast' = Append(bcast, StopMsg(g_currentRomName))
              /\ UNCHANGED <<fanPosted, fanMsg, reply>>
       /\ (alive' /\ netPc \in {"reset", "clear"} /\ netPc' # netPc) =>
              UNCHANGED <<bcast, fanPosted, fanMsg, reply>>]_vars

\* A connect failed after a connection was lost and cleaned up, with two
\* consumers registered.
C21_FailedWithConsumers ==
    /\ alive /\ netPc = "sleep" /\ nClear = 1
    /\ Len(g_clients) = 2 /\ NumOfType("STOP") = 1

\* GUIWndProc has handled WM_DESTROY: shutdown is requested.
ShutdownRequested == ~g_running

\* C22: once shutdown is requested, the network thread reads no further
\* bytes, parses no further line, posts no further UPDATE, START or STOP and
\* starts no new connection.
C22_ShutdownStopsReading ==
    [][(ShutdownRequested /\ alive') =>
           /\ ~LineProcessed
           /\ UNCHANGED <<bcast, fanPosted, nConn, nRecv>>]_vars

(***************************************************************************)
(* The read loop on an arbitrary byte stream: recv returns any non-empty   *)
(* block of bytes, so a line can end anywhere in a block or in a later     *)
(* one.  The history of the stream is kept.                                *)
(***************************************************************************)
StreamBytes == {"a", "=", CR}

\* The blocks recv can return: every non-empty text of up to MaxChunk bytes,
\* and the beginning of a start line.
StreamChunks ==
    (SeqsUpTo(StreamBytes, MaxChunk) \ {<<>>}) \cup {StartKeyword \o <<"=">>}

StreamInit ==
    /\ g_running = TRUE
    /\ g_clients = <<>>
    /\ g_nameToID = EmptyMap
    /\ g_idToName = EmptyMap
    /\ g_nextID = 1
    /\ g_currentRomName = Sentinel
    /\ alive = TRUE
    /\ netPc = "loop"
    /\ netBuffer = <<>>
    /\ fanMsg = NoMsg
    /\ fanIdx = 1
    /\ fanEnd = 0
    /\ fanBuf = <<>>
    /\ fanLive = TRUE
    /\ uiPc = "idle"
    /\ uiTo = NoConsumer
    /\ uiId = 0
    /\ uiName = <<>>
    /\ uiRaced = FALSE
    /\ fanPosted = <<>>
    /\ bcast = <<>>
    /\ reply = NoReply
    /\ nConn = 0
    /\ nRecv = 0
    /\ nDisc = 0
    /\ nClear = 0
    /\ lastStart = NoTitle
    /\ uiExpect = <<>>
    /\ fanTouched = {}
    /\ lastKind = "none"
    /\ received = <<>>
    /\ parsed = <<>>

StreamNext ==
    \/ NetConnect
    \/ \E chunk \in StreamChunks : NetRecv(chunk)
    \/ NetRecvEnd
    \/ NetSplitNone
    \/ NetLineNoop
    \/ NetLineStart
    \/ NetLineUpdate
    \/ NetFanEnd
    \/ NetStop
    \/ NetResetTitle
    \/ NetClear

StreamSpec == StreamInit /\ [][StreamNext]_vars

\* The byte stream that consists of the given lines, each with its terminator.
RECURSIVE Join(_)
Join(lines) ==
    IF lines = <<>> THEN <<>>
    ELSE Head(lines) \o <<CR>> \o Join(Tail(lines))

\* The bytes of this connection that are not part of a line handed over.
Unparsed == IF netPc = "fanout" THEN ErasedLine ELSE netBuffer

\* C23: whatever blocks the stream of a connection arrived in, the lines
\* handed to ProcessLine, each followed by its terminator, and then the
\* bytes still buffered, are the stream received so far; no line handed over
\* contains a terminator, and between reads the buffer contains none.  There
\* is one such division of a stream, so the lines depend on the stream only.
C23_LinesOfStream ==
    (Tracking /\ alive /\ netPc \in {"recv", "split", "fanout", "disc"}) =>
        /\ Join(parsed) \o Unparsed = received
        /\ \A i \in DOMAIN parsed : Find(parsed[i], CR) = 0
        /\ netPc \in {"recv", "disc"} => Find(netBuffer, CR) = 0

\* The line "a=" arrived in two blocks and was handed over once, whole.
C23_SplitLineParsedWhole ==
    /\ netPc = "recv" /\ nConn = 1 /\ nRecv = 2
    /\ received = <<"a", "=", CR>>
    /\ parsed = <<<<"a", "=">>>>

\* The first line of a stream: its bytes before the first terminator.
FirstLine(stream) == SubSeq(stream, 1, Find(stream, CR) - 1)

\* C24: when the read loop ends, nothing is handed to ProcessLine: neither
\* the end of the stream nor the cleanup that follows it hands over a line,
\* whatever is left in the buffer; the next connection starts with an empty
\* buffer, and the first line it hands over consists of bytes of its own
\* stream only.
C24_FragmentDiscarded ==
    [][/\ (alive' /\ netPc = "recv" /\ nRecv' = nRecv /\ netPc' # "recv") =>
              /\ netPc' = "disc"
              /\ UNCHANGED <<parsed, bcast, fanMsg, g_nameToID, g_idToName,
                             g_nextID, g_currentRomName>>
       /\ (alive' /\ netPc \in {"disc", "reset", "clear"}) =>
              /\ netPc' \in {"disc", "reset", "clear", "loop"}
              /\ UNCHANGED <<parsed, fanMsg>>
       /\ (alive' /\ netPc = "loop" /\ netPc' = "recv") => netBuffer' = <<>>
       /\ (Tracking /\ LineProcessed /\ parsed = <<>>) =>
              CurrentLine = FirstLine(received)]_vars

\* A connection ended with "a=" received and no terminator; the cleanup is
\* done and nothing was handed over.
C24_FragmentDropped ==
    /\ alive /\ netPc = "loop" /\ nClear = 1
    /\ received = <<"a", "=">> /\ parsed = <<>>
    /\ netBuffer = <<>> /\ g_nameToID = EmptyMap

\* The step posts a START broadcast.
StartPosted ==
    /\ Len(bcast') > Len(bcast)
    /\ bcast'[Len(bcast')].type = "START"

\* C25: a step that appends to the client list posts nothing (no broadcast,
\* no UPDATE, no reply); every step posts at most one broadcast; and a START
\* is posted only by a successful connect or by the processing of a line
\* whose name is the start keyword.  So there are at most as many STARTs as
\* connects and start lines together, however often consumers register.
C25_RegisterPostsNothing ==
    [][/\ (alive' /\ Len(g_clients') > Len(g_clients)) =>
              UNCHANGED <<bcast, fanPosted, fanMsg, reply>>
       /\ Len(bcast') <= Len(bcast) + 1
       /\ StartPosted =>
              \/ netPc = "loop" /\ netPc' = "recv" /\ nConn' = nConn + 1
              \/ LineProcessed /\ LineKind(CurrentLine) = "start"]_vars

\* c1 has registered twice in a session with two STARTs, the one of the
\* connect and the one of a start line, and nothing else was broadcast.
C25_ReRegisteredAfterStarts ==
    /\ g_clients = <<"c1", "c1">> /\ nConn = 1
    /\ NumOfType("START") = 2 /\ Len(bcast) = 2
    /\ netPc = "recv"

\* The IDs issued since the tables were last cleared.
IssuedIDs == {g_nameToID[n] : n \in DOMAIN g_nameToID}

\* C26: the UPDATE being fanned out carries a non-zero ID whose reverse
\* lookup is the sanitized name of its line; the ID-to-name entry of an
\* issued ID stays as it is until the tables are cleared at a disconnect;
\* and a request for an issued ID that is answered before then is answered
\* with that name.
C26_UpdateIdNamesItsLine ==
    [][alive' =>
         /\ (netPc' = "fanout") =>
               /\ fanMsg'[1] # 0
               /\ fanMsg'[1] \in DOMAIN g_idToName'
               /\ g_idToName'[fanMsg'[1]] = LineName(CurrentLine)'
         /\ ~(netPc = "clear" /\ netPc' = "loop") =>
               \A id \in IssuedIDs : /\ id \in DOMAIN g_idToName'
                                     /\ g_idToName'[id] = g_idToName[id]
         /\ (uiPc = "index" /\ uiPc' = "wait" /\ uiId \in IssuedIDs
               /\ uiExpect = ReverseLookup(uiId)) =>
               reply'.name = ReverseLookup(uiId)]_vars

\* The network thread has no connection: it is about to connect, sleeping
\* after a failed connect, or has returned.
NotConnected == netPc \in {"loop", "sleep", "done"}

\* C27: whenever the network thread has no connection, both name tables are
\* empty, the next ID is 1 and the title is the sentinel; and a step taken
\* while there is no connection posts no UPDATE and no START other than the
\* sentinel START of a successful connect.
C27_CleanWhenNotConnected ==
    [][/\ (alive' /\ NotConnected') =>
              /\ g_nameToID' = EmptyMap
              /\ g_idToName' = EmptyMap
              /\ g_nextID' = 1
              /\ g_currentRomName' = Sentinel
       /\ (alive' /\ NotConnected) =>
              /\ UNCHANGED <<fanPosted, fanMsg>>
              /\ \/ bcast' = bcast
                 \/ bcast' = Append(bcast, StartMsg(Sentinel))]_vars

====
